---- MODULE Spec2Model ----
(***************************************************************************)
(* Model of the App component of src/index.tsx: the chat sessions, the     *)
(* active session, the asynchronous chat and build requests and the copy   *)
(* of the sessions kept in the browser's local storage.                    *)
(*                                                                         *)
(* Strings are sequences of character codes.  A JavaScript object used as  *)
(* a map is a sequence of [key, value] entries in insertion order (the     *)
(* keys are Date.now() strings, beyond the array-index range, so           *)
(* Object.keys lists them in insertion order).  A value that may be null   *)
(* is a sequence of length at most one.  One step of the model is one      *)
(* event-loop task: a UI event handler up to its first suspending await,   *)
(* or the continuation of a handler after the awaited promise settled,     *)
(* together with the render and the effects that follow it.                *)
(***************************************************************************)
EXTENDS Integers, Sequences, FiniteSets

(* ---------------------------------------------------------------- bounds *)
\* Date.now() takes MaxTime values after the stored sessions were written
MaxTime == 2
\* number of submits of the form over a run
MaxSubmits == 2
\* number of chunks a response stream delivers at most
MaxChunks == 2
\* number of UI events other than submits over a run
MaxGestures == 3

(* ------------------------------------------------------- string literals *)
\* substring(0, 30) and length > 30 of newTitle
TitleMax == 30

NewChatTitle == <<78, 101, 119, 32, 67, 104, 97, 116>>
Ellipsis == <<46, 46, 46>>
PermissionDenied ==
    <<80, 69, 82, 77, 73, 83, 83, 73, 79, 78, 95, 68, 69, 78, 73, 69, 68>>
ApiKeyNotValid ==
    <<65, 80, 73, 32, 107, 101, 121, 32, 110, 111, 116, 32, 118, 97, 108, 105, 100>>
SorryPrefix ==
    <<83, 111, 114, 114, 121, 44, 32, 115, 111, 109, 101, 116, 104, 105, 110,
      103, 32, 119, 101, 110, 116, 32, 119, 114, 111, 110, 103, 46, 32>>
UnknownError ==
    <<65, 110, 32, 117, 110, 107, 110, 111, 119, 110, 32, 101, 114, 114, 111,
      114, 32, 111, 99, 99, 117, 114, 114, 101, 100, 46>>

(* ------------------------------------------------------ string functions *)
None == <<>>
Some(x) == <<x>>

\* JavaScript truthiness of a string-or-null: null and '' are falsy
Truthy(opt) == opt # None /\ opt[1] # <<>>

IsSpace(c) == c = 32

RECURSIVE TrimStart(_)
TrimStart(s) ==
    IF s # <<>> /\ IsSpace(Head(s)) THEN TrimStart(Tail(s)) ELSE s

RECURSIVE TrimEnd(_)
TrimEnd(s) ==
    IF s # <<>> /\ IsSpace(s[Len(s)]) THEN TrimEnd(SubSeq(s, 1, Len(s) - 1)) ELSE s

\* String.prototype.trim
Trim(s) == TrimEnd(TrimStart(s))

\* String.prototype.substring(0, n)
Substring0(s, n) == SubSeq(s, 1, IF Len(s) < n THEN Len(s) ELSE n)

\* String.prototype.includes
Includes(s, sub) ==
    \E i \in 1..(Len(s) - Len(sub) + 1) : SubSeq(s, i, i + Len(sub) - 1) = sub

\* Number.prototype.toString of a non-negative integer
RECURSIVE ToString(_)
ToString(n) ==
    IF n < 10 THEN <<48 + n>> ELSE ToString(n \div 10) \o <<48 + (n % 10)>>

\* newTitle of handleSendMessage for a first message
NewTitle(currentInput) ==
    Substring0(currentInput, TitleMax)
        \o (IF Len(currentInput) > TitleMax THEN Ellipsis ELSE <<>>)

(* ------------------------------------------------------------ object maps *)
Keys(m) == [i \in 1..Len(m) |-> m[i].key]

HasKey(m, k) == \E i \in 1..Len(m) : m[i].key = k

Get(m, k) == m[CHOOSE i \in 1..Len(m) : m[i].key = k].value

\* {...m, [k]: v}: an existing key keeps its place, a new key goes last
Put(m, k, v) ==
    IF HasKey(m, k)
    THEN [i \in 1..Len(m) |-> IF m[i].key = k THEN [key |-> k, value |-> v] ELSE m[i]]
    ELSE Append(m, [key |-> k, value |-> v])

Message(role, text) == [role |-> role, text |-> text]

ChatSession(id, title, messages) ==
    [id |-> id, title |-> title, messages |-> messages]

(* ------------------------------------------------------------------ JSON *)
\* A JSON text is represented by whether it parses and the value it denotes:
\* the sessions hold only strings, arrays and plain objects, which
\* JSON.stringify writes and JSON.parse reads back member by member.
JSONstringify(m) == [wellFormed |-> TRUE, doc |-> m]

MalformedJSON == [wellFormed |-> FALSE, doc |-> <<>>]

JSONparseThrows(text) == ~text.wellFormed

JSONparse(text) == text.doc

(* ------------------------------------------------------------- the inputs *)
\* what the user types: 'a' and a text of TitleMax + 1 characters
Inputs == {<<97>>, [i \in 1..(TitleMax + 1) |-> 98]}

\* the text of the k-th chunk of a response stream
ChunkText(k) == IF k % 2 = 1 THEN <<120>> ELSE <<121, 122>>

\* A thrown value: isError is `error instanceof Error`, text is error.message
\* of an Error and JSON.stringify(error) of any other value.
Thrown(isError, text) == [thrown |-> TRUE, isError |-> isError, text |-> text]

NoError == [thrown |-> FALSE, isError |-> FALSE, text |-> <<>>]

ApiErrors ==
    { Thrown(TRUE, <<123>> \o PermissionDenied \o <<125>>),
      Thrown(FALSE, <<123>> \o ApiKeyNotValid \o <<125>>),
      Thrown(TRUE, <<98, 111, 111, 109>>),
      Thrown(FALSE, <<123, 125>>) }

\* the TypeError of html.includes when response.text is undefined
NoTextError == Thrown(TRUE, <<84, 121, 112, 101, 69, 114, 114, 111, 114>>)

\* A page: where it comes from, and whether its text holds a <head> tag and
\* '<base href'.
Page(src, head, base) == [src |-> src, head |-> head, base |-> base]

Undefined == Page("undefined", FALSE, FALSE)

\* response.text of generateContent
GeneratedPages ==
    { Page("generated", TRUE, FALSE), Page("generated", TRUE, TRUE),
      Page("generated", FALSE, FALSE) }

(* ------------------------------------------------- what local storage holds *)
\* Date.now() of the earlier visits that wrote the stored sessions
StoredIdA == ToString(1)
StoredIdB == ToString(2)
FirstNow == 2 + 1
LastNow == 2 + MaxTime

StoredA ==
    ChatSession(StoredIdA, <<97>>,
                <<Message("user", <<97>>), Message("model", <<120>>)>>)
StoredB == ChatSession(StoredIdB, NewChatTitle, <<>>)
StoredTwo ==
    <<[key |-> StoredIdA, value |-> StoredA], [key |-> StoredIdB, value |-> StoredB]>>

Storage(sessions, active) == [chatSessions |-> sessions, activeChatId |-> active]

\* nothing stored; an unreadable text; two sessions, the second active; two
\* sessions and an active id that is no key; an empty map
BootStorages ==
    { Storage(None, None),
      Storage(Some(MalformedJSON), None),
      Storage(Some(JSONstringify(StoredTwo)), Some(StoredIdB)),
      Storage(Some(JSONstringify(StoredTwo)), Some(ToString(0))),
      Storage(Some(JSONstringify(<<>>)), None) }

(* ---------------------------------------------------------------- state *)
VARIABLES
    phase,          \* "init": before the mount effects; "loaded": the mount
                    \* effects ran, the render they asked for is due; "ready"
    now,            \* Date.now() when it was last read
    hasAistudio,    \* window.aistudio offers hasSelectedApiKey / openSelectKey
    chatSessions, activeChatId, inputValue, isLoading, thinkingMode,
    showPreview, previewSrcDoc, mode,
    apiKeyReady,    \* apiKeyReady and apiKeyReadyRef.current (set together)
    localStorage,   \* the items 'chatSessions' and 'activeChatId'
    reqs,           \* the calls of handleSendMessage / handleBuildRequest
    submits,        \* how many of them were started
    gestures,       \* how many other UI events were handled
    alert,          \* the dialog the last step showed
    caught          \* the error the last step caught

vars ==
    <<phase, now, hasAistudio, chatSessions, activeChatId, inputValue,
      isLoading, thinkingMode, showPreview, previewSrcDoc, mode, apiKeyReady,
      localStorage, reqs, submits, gestures, alert, caught>>

ReqIds == 1..MaxSubmits

\* A call of an async handler: where it is suspended and the values its
\* closure holds (the state of the render the handler belongs to).
IdleReq ==
    [pc |-> "idle", handler |-> "none", inputValue |-> <<>>, activeChatId |-> <<>>,
     currentChatSession |-> ChatSession(<<>>, <<>>, <<>>),
     modelResponse |-> <<>>, chunks |-> <<>>]

\* what the catch block of a step caught, for which call of which handler
Caught(handler, rid, error) == [handler |-> handler, rid |-> rid, error |-> error]

Nothing == Caught("none", 0, NoError)

(* ------------------------------------------------------ the state updates *)
\* the save effect with setItem('activeChatId', ...) left out
SaveEffectSessionsOnly(sessions, active, loading, store) ==
    IF ~loading /\ Len(Keys(sessions)) > 0 /\ Truthy(active)
    THEN Storage(Some(JSONstringify(sessions)), store.activeChatId)
    ELSE store

\* the save effect without the test for a non-empty map and an active id
SaveEffectUnguarded(sessions, active, loading, store) ==
    IF ~loading THEN Storage(Some(JSONstringify(sessions)), active) ELSE store

\* the save-to-localStorage effect, run with the state of a render; both
\* setItem calls are taken to succeed
SaveEffect(sessions, active, loading, store) ==
    IF ~loading /\ Len(Keys(sessions)) > 0 /\ Truthy(active)
    THEN Storage(Some(JSONstringify(sessions)), active)
    ELSE store

\* setChatSessions(prev => ({...prev, [newId]: newChatSession}))
HandleNewChat(prev, newId) ==
    Put(prev, newId, ChatSession(newId, NewChatTitle, <<>>))

\* the load taking the stored active id without looking it up in the map
LoadEffectTrustingActiveId(store, t) ==
    LET newId == ToString(t)
        savedSessions == store.chatSessions
        savedActiveId == store.activeChatId
        fresh(prev) ==
            [chatSessions |-> HandleNewChat(prev, newId), activeChatId |-> Some(newId)]
    IN  IF savedSessions # None
        THEN IF JSONparseThrows(savedSessions[1])
             THEN fresh(<<>>)
             ELSE LET parsedSessions == JSONparse(savedSessions[1])
                  IN  IF Truthy(savedActiveId)
                      THEN [chatSessions |-> parsedSessions,
                            activeChatId |-> savedActiveId]
                      ELSE IF Len(Keys(parsedSessions)) > 0
                      THEN [chatSessions |-> parsedSessions,
                            activeChatId |-> Some(Keys(parsedSessions)[1])]
                      ELSE fresh(parsedSessions)
        ELSE fresh(<<>>)

\* the initial-load effect: the sessions and the active id it sets, at time t
LoadEffect(store, t) ==
    LET newId == ToString(t)
        savedSessions == store.chatSessions
        savedActiveId == store.activeChatId
        fresh(prev) ==
            [chatSessions |-> HandleNewChat(prev, newId), activeChatId |-> Some(newId)]
    IN  IF savedSessions # None
        THEN IF JSONparseThrows(savedSessions[1])
             THEN fresh(<<>>)
             ELSE LET parsedSessions == JSONparse(savedSessions[1])
                  IN  IF Truthy(savedActiveId) /\ HasKey(parsedSessions, savedActiveId[1])
                      THEN [chatSessions |-> parsedSessions,
                            activeChatId |-> savedActiveId]
                      ELSE IF Len(Keys(parsedSessions)) > 0
                      THEN [chatSessions |-> parsedSessions,
                            activeChatId |-> Some(Keys(parsedSessions)[1])]
                      ELSE fresh(parsedSessions)
        ELSE fresh(<<>>)

\* activeMessages of a render
ActiveMessages(sessions, active) ==
    IF Truthy(active) /\ HasKey(sessions, active[1])
    THEN Get(sessions, active[1]).messages
    ELSE <<>>

\* the messages of every session cleared, not only those of the active one
ClearEveryMessages(prev, key) ==
    [i \in 1..Len(prev) |-> [prev[i] EXCEPT !.value.messages = <<>>]]

\* handleThinkingModeChange: messages: [] for the active session
ClearMessages(prev, key) ==
    Put(prev, key, [Get(prev, key) EXCEPT !.messages = <<>>])

\* the user message put in front of the list instead of at its end
AppendUserMessageInFront(prev, req) ==
    LET key == req.activeChatId[1]
    IN  Put(prev, key,
            [Get(prev, key) EXCEPT
                !.messages = <<Message("user", req.inputValue)>> \o @])

\* handleSendMessage: the title and the user message of the call req
AppendUserMessage(prev, req) ==
    LET key == req.activeChatId[1]
        currentChatSession == req.currentChatSession
        isFirstMessage == Len(currentChatSession.messages) = 0
        newTitle ==
            IF isFirstMessage THEN NewTitle(req.inputValue)
            ELSE currentChatSession.title
    IN  Put(prev, key,
            [Get(prev, key) EXCEPT
                !.title = newTitle,
                !.messages = Append(@, Message("user", req.inputValue))])

\* the placeholder added to the session active now, not to the one of the call
AppendPlaceholderToActive(prev, key) ==
    Put(prev, activeChatId[1],
        [Get(prev, activeChatId[1]) EXCEPT
            !.messages = Append(@, Message("model", <<>>))])

\* handleSendMessage: the empty model message added when the stream opens
AppendPlaceholder(prev, key) ==
    Put(prev, key,
        [Get(prev, key) EXCEPT !.messages = Append(@, Message("model", <<>>))])

\* handleSendMessage: the update made for a chunk.  On an empty list the
\* assignment at index length - 1 = -1 adds no element.
ChunkUpdate(prev, key, modelResponse) ==
    LET currentMessages == Get(prev, key).messages
    IN  Put(prev, key,
            [Get(prev, key) EXCEPT
                !.messages =
                    IF Len(currentMessages) = 0 THEN currentMessages
                    ELSE [currentMessages EXCEPT
                            ![Len(currentMessages)] = Message("model", modelResponse)]])

ErrorString(error) == error.text

ErrorMessage(error) == IF error.isError THEN error.text ELSE UnknownError

\* the test for a credential error without its second alternative
IsPermissionDenied(error) == Includes(ErrorString(error), PermissionDenied)

IsCredentialError(error) ==
    \/ Includes(ErrorString(error), PermissionDenied)
    \/ Includes(ErrorString(error), ApiKeyNotValid)

\* handleSendMessage: the revert of the optimistic updates
RevertOptimistic(prev, req) ==
    Put(prev, req.activeChatId[1], req.currentChatSession)

\* handleSendMessage: the message added for any other error
AppendErrorMessage(prev, key, error) ==
    Put(prev, key,
        [Get(prev, key) EXCEPT
            !.messages = Append(@, Message("model", SorryPrefix \o ErrorMessage(error)))])

\* handleBuildRequest: the base element put after the <head> tag
InsertBase(html) ==
    IF ~html.base
    THEN IF html.head THEN [html EXCEPT !.base = TRUE] ELSE html
    ELSE html

(* ------------------------------------------------------------------ Init *)
Init ==
    /\ phase = "init"
    /\ localStorage \in BootStorages
    /\ now = FirstNow
    /\ hasAistudio \in BOOLEAN
    /\ hasAistudio \/ localStorage = Storage(None, None)
    /\ chatSessions = <<>>
    /\ activeChatId = None
    /\ inputValue = <<>>
    /\ isLoading = FALSE
    /\ thinkingMode = FALSE
    /\ showPreview = FALSE
    /\ previewSrcDoc = Undefined
    /\ mode = "chat"
    /\ apiKeyReady = FALSE
    /\ reqs = [r \in ReqIds |-> IdleReq]
    /\ submits = 0
    /\ gestures = 0
    /\ alert = "none"
    /\ caught = Nothing

\* The render after a step and its save effect; the effect runs when one of
\* chatSessions, activeChatId, isLoading was set anew.
Render(depsChanged) ==
    localStorage' =
        IF depsChanged
        THEN SaveEffect(chatSessions', activeChatId', isLoading', localStorage)
        ELSE localStorage

(* ------------------------------------------------------------- the mount *)
\* The effects of the first render, in their order: the initial load, the
\* API-key check, and the save effect with the state of that first render.
MountEffects ==
    /\ phase = "init"
    /\ LET loaded == LoadEffect(localStorage, now)
       IN  /\ chatSessions' = loaded.chatSessions
           /\ activeChatId' = loaded.activeChatId
    /\ IF hasAistudio
       THEN UNCHANGED apiKeyReady   \* checkApiKey awaits hasSelectedApiKey()
       ELSE apiKeyReady' = TRUE
    /\ localStorage' = SaveEffect(chatSessions, activeChatId, isLoading, localStorage)
    /\ phase' = "loaded"
    /\ alert' = "none"
    /\ caught' = Nothing
    /\ UNCHANGED <<now, hasAistudio, inputValue, isLoading, thinkingMode, showPreview,
                   previewSrcDoc, mode, reqs, submits, gestures>>

\* The render with the loaded state, and its save effect.  By then
\* hasSelectedApiKey() has settled: hasKey is its result, and TRUE when it
\* threw.
MountRender(hasKey) ==
    /\ phase = "loaded"
    /\ IF hasAistudio THEN apiKeyReady' = hasKey
       ELSE hasKey /\ UNCHANGED apiKeyReady
    /\ phase' = "ready"
    /\ localStorage' = SaveEffect(chatSessions, activeChatId, isLoading, localStorage)
    /\ alert' = "none"
    /\ caught' = Nothing
    /\ UNCHANGED <<now, hasAistudio, chatSessions, activeChatId, inputValue,
                   isLoading, thinkingMode, showPreview, previewSrcDoc, mode,
                   reqs, submits, gestures>>

(* ------------------------------------------------------- the UI handlers *)
\* the New Chat button; t is what Date.now() returns: the clock has moved on
\* since it was last read, or has not
NewChatClick(t) ==
    /\ phase = "ready"
    /\ gestures < MaxGestures
    /\ gestures' = gestures + 1
    /\ t >= now
    /\ now' = t
    /\ LET newId == ToString(t)
       IN  /\ chatSessions' = HandleNewChat(chatSessions, newId)
           /\ activeChatId' = Some(newId)
    /\ alert' = "none"
    /\ caught' = Nothing
    /\ UNCHANGED <<phase, hasAistudio, inputValue, isLoading,
                   thinkingMode, showPreview, previewSrcDoc, mode, apiKeyReady, reqs,
                   submits>>
    /\ Render(TRUE)

\* a click on another session of the sidebar
HandleSelectChat(chatId) ==
    /\ phase = "ready"
    /\ gestures < MaxGestures
    /\ gestures' = gestures + 1
    /\ HasKey(chatSessions, chatId)
    /\ Some(chatId) # activeChatId
    /\ activeChatId' = Some(chatId)
    /\ UNCHANGED chatSessions
    /\ alert' = "none"
    /\ caught' = Nothing
    /\ UNCHANGED <<phase, now, hasAistudio, inputValue, isLoading,
                   thinkingMode, showPreview, previewSrcDoc, mode, apiKeyReady, reqs,
                   submits>>
    /\ Render(TRUE)

\* a click on the mode toggle; confirmed is the answer to window.confirm
HandleThinkingModeChange(confirmed) ==
    /\ phase = "ready"
    /\ gestures < MaxGestures
    /\ gestures' = gestures + 1
    /\ LET activeMessages == ActiveMessages(chatSessions, activeChatId)
       IN  IF Len(activeMessages) > 0 /\ ~confirmed
           THEN /\ UNCHANGED <<chatSessions, thinkingMode>>
                /\ caught' = Nothing
           ELSE \* no dialog is shown for an empty conversation
                /\ Len(activeMessages) > 0 \/ confirmed
                /\ chatSessions' =
                       IF Truthy(activeChatId)
                       THEN ClearMessages(chatSessions, activeChatId[1])
                       ELSE chatSessions
                /\ thinkingMode' = ~thinkingMode
                /\ caught' = Nothing
    /\ alert' = "none"
    /\ UNCHANGED <<phase, now, hasAistudio, activeChatId, inputValue,
                   isLoading, showPreview, previewSrcDoc, mode, apiKeyReady, reqs,
                   submits>>
    /\ Render(thinkingMode' # thinkingMode /\ Truthy(activeChatId))

\* the Chat / Build & Ask buttons
SetMode(m) ==
    /\ phase = "ready"
    /\ gestures < MaxGestures
    /\ gestures' = gestures + 1
    /\ m # mode
    /\ mode' = m
    /\ alert' = "none"
    /\ caught' = Nothing
    /\ UNCHANGED <<phase, now, hasAistudio, chatSessions, activeChatId,
                   inputValue, isLoading, thinkingMode, showPreview, previewSrcDoc,
                   apiKeyReady, localStorage, reqs, submits>>

\* typing into the textarea
OnChangeInput(text) ==
    /\ phase = "ready"
    /\ gestures < MaxGestures
    /\ gestures' = gestures + 1
    /\ text # inputValue
    /\ inputValue' = text
    /\ alert' = "none"
    /\ caught' = Nothing
    /\ UNCHANGED <<phase, now, hasAistudio, chatSessions, activeChatId,
                   isLoading, thinkingMode, showPreview, previewSrcDoc, mode,
                   apiKeyReady, localStorage, reqs, submits>>

HandleClosePreview ==
    /\ phase = "ready"
    /\ gestures < MaxGestures
    /\ gestures' = gestures + 1
    /\ showPreview
    /\ showPreview' = FALSE
    /\ previewSrcDoc' = Undefined
    /\ alert' = "none"
    /\ caught' = Nothing
    /\ UNCHANGED <<phase, now, hasAistudio, chatSessions, activeChatId,
                   inputValue, isLoading, thinkingMode, mode, apiKeyReady,
                   localStorage, reqs, submits>>

(* ------------------------------------------------- the chat and build calls *)
Done == [IdleReq EXCEPT !.pc = "done"]

\* handleSendMessage from the end of `await ensureApiKey()` to
\* `await chat.sendMessageStream(...)`
SendProceed(r, req) ==
    /\ chatSessions' = AppendUserMessage(chatSessions, req)
    /\ inputValue' = <<>>
    /\ isLoading' = TRUE
    /\ reqs' = [reqs EXCEPT ![r] = [req EXCEPT !.pc = "sendMessageStream"]]
    /\ UNCHANGED <<showPreview, previewSrcDoc>>

\* handleBuildRequest from the end of `await ensureApiKey()` to
\* `await ai.models.generateContent(...)`
BuildProceed(r, req) ==
    /\ inputValue' = <<>>
    /\ isLoading' = TRUE
    /\ reqs' = [reqs EXCEPT ![r] = [req EXCEPT !.pc = "generateContent"]]
    /\ UNCHANGED <<chatSessions, showPreview, previewSrcDoc>>

Proceed(r, req) ==
    IF req.handler = "handleSendMessage" THEN SendProceed(r, req) ELSE BuildProceed(r, req)

\* handleSubmit: the guard of the handler of the current mode, ensureApiKey,
\* and, unless the key dialog has to be awaited, the handler up to its request
HandleSubmit ==
    /\ phase = "ready"
    /\ submits < MaxSubmits
    /\ Trim(inputValue) # <<>>
    /\ ~isLoading
    /\ mode = "chat" => Truthy(activeChatId)
    /\ LET r == submits + 1
           req == [IdleReq EXCEPT
                     !.handler = IF mode = "build" THEN "handleBuildRequest"
                                 ELSE "handleSendMessage",
                     !.inputValue = inputValue,
                     !.activeChatId = IF mode = "build" THEN <<>> ELSE activeChatId,
                     !.currentChatSession =
                         IF mode = "build" THEN IdleReq.currentChatSession
                         ELSE Get(chatSessions, activeChatId[1])]
       IN  /\ submits' = r
           /\ caught' = Nothing
           /\ IF apiKeyReady \/ ~hasAistudio
              THEN Proceed(r, req)
              ELSE /\ reqs' = [reqs EXCEPT ![r] = [req EXCEPT !.pc = "openSelectKey"]]
                   /\ UNCHANGED <<chatSessions, inputValue, isLoading, showPreview,
                                  previewSrcDoc>>
    /\ alert' = "none"
    /\ UNCHANGED <<phase, now, hasAistudio, activeChatId, thinkingMode, mode,
                   apiKeyReady, gestures>>
    /\ Render(apiKeyReady \/ ~hasAistudio)

\* ensureApiKey after window.aistudio.openSelectKey() resolved
OpenSelectKeyResolved(r) ==
    /\ phase = "ready"
    /\ reqs[r].pc = "openSelectKey"
    /\ apiKeyReady' = TRUE
    /\ Proceed(r, reqs[r])
    /\ alert' = "none"
    /\ caught' = Nothing
    /\ UNCHANGED <<phase, now, hasAistudio, activeChatId, thinkingMode, mode,
                   submits, gestures>>
    /\ Render(TRUE)

\* ensureApiKey after window.aistudio.openSelectKey() rejected; dialogClosed
\* says whether the message of the error includes 'dialog closed'
OpenSelectKeyRejected(r, dialogClosed) ==
    /\ phase = "ready"
    /\ reqs[r].pc = "openSelectKey"
    /\ reqs' = [reqs EXCEPT ![r] = Done]
    /\ alert' = IF dialogClosed THEN "none" ELSE "keySelectionError"
    /\ caught' = Nothing
    /\ UNCHANGED <<phase, now, hasAistudio, chatSessions, activeChatId,
                   inputValue, isLoading, thinkingMode, showPreview, previewSrcDoc,
                   mode, apiKeyReady, localStorage, submits, gestures>>

\* sendMessageStream resolved: the placeholder
StreamOpened(r) ==
    /\ phase = "ready"
    /\ reqs[r].pc = "sendMessageStream"
    /\ chatSessions' = AppendPlaceholder(chatSessions, reqs[r].activeChatId[1])
    /\ reqs' = [reqs EXCEPT ![r].pc = "stream"]
    /\ alert' = "none"
    /\ caught' = Nothing
    /\ UNCHANGED <<phase, now, hasAistudio, activeChatId, inputValue,
                   isLoading, thinkingMode, showPreview, previewSrcDoc, mode,
                   apiKeyReady, submits, gestures>>
    /\ Render(TRUE)

\* one turn of the for-await loop
StreamChunk(r) ==
    /\ phase = "ready"
    /\ reqs[r].pc = "stream"
    /\ Len(reqs[r].chunks) < MaxChunks
    /\ LET chunkText == ChunkText(Len(reqs[r].chunks) + 1)
           modelResponse == reqs[r].modelResponse \o chunkText
       IN  /\ reqs' = [reqs EXCEPT ![r].modelResponse = modelResponse,
                                   ![r].chunks = Append(@, chunkText)]
           /\ chatSessions' =
                  ChunkUpdate(chatSessions, reqs[r].activeChatId[1], modelResponse)
    /\ alert' = "none"
    /\ caught' = Nothing
    /\ UNCHANGED <<phase, now, hasAistudio, activeChatId, inputValue,
                   isLoading, thinkingMode, showPreview, previewSrcDoc, mode,
                   apiKeyReady, submits, gestures>>
    /\ Render(TRUE)

\* the stream ended: the finally block
StreamEnded(r) ==
    /\ phase = "ready"
    /\ reqs[r].pc = "stream"
    /\ reqs' = [reqs EXCEPT ![r] = Done]
    /\ isLoading' = FALSE
    /\ UNCHANGED chatSessions
    /\ alert' = "none"
    /\ caught' = Nothing
    /\ UNCHANGED <<phase, now, hasAistudio, activeChatId, inputValue,
                   thinkingMode, showPreview, previewSrcDoc, mode, apiKeyReady,
                   submits, gestures>>
    /\ Render(TRUE)

\* sendMessageStream rejected or the stream threw: catch and finally
SendFailed(r, error) ==
    /\ phase = "ready"
    /\ reqs[r].pc \in {"sendMessageStream", "stream"}
    /\ IF IsCredentialError(error)
       THEN /\ alert' = "apiKeyIssue"
            /\ apiKeyReady' = FALSE
            /\ chatSessions' = RevertOptimistic(chatSessions, reqs[r])
            /\ inputValue' = reqs[r].inputValue
       ELSE /\ alert' = "none"
            /\ chatSessions' =
                   AppendErrorMessage(chatSessions, reqs[r].activeChatId[1], error)
            /\ UNCHANGED <<apiKeyReady, inputValue>>
    /\ isLoading' = FALSE
    /\ reqs' = [reqs EXCEPT ![r] = Done]
    /\ caught' = Caught("handleSendMessage", r, error)
    /\ UNCHANGED <<phase, now, hasAistudio, activeChatId, thinkingMode,
                   showPreview, previewSrcDoc, mode, submits, gestures>>
    /\ Render(TRUE)

\* the build handler without setShowPreview(true)
BuildRespondedPreviewShut(r, generatedHtml) ==
    /\ phase = "ready"
    /\ reqs[r].pc = "generateContent"
    /\ previewSrcDoc' = InsertBase(generatedHtml)
    /\ isLoading' = FALSE
    /\ reqs' = [reqs EXCEPT ![r] = Done]
    /\ alert' = "none"
    /\ caught' = Nothing
    /\ UNCHANGED <<phase, now, hasAistudio, chatSessions, activeChatId, inputValue,
                   thinkingMode, showPreview, mode, apiKeyReady, submits, gestures>>
    /\ Render(TRUE)

\* generateContent resolved with a text
BuildResponded(r, generatedHtml) ==
    /\ phase = "ready"
    /\ reqs[r].pc = "generateContent"
    /\ previewSrcDoc' = InsertBase(generatedHtml)
    /\ showPreview' = TRUE
    /\ isLoading' = FALSE
    /\ reqs' = [reqs EXCEPT ![r] = Done]
    /\ UNCHANGED chatSessions
    /\ alert' = "none"
    /\ caught' = Nothing
    /\ UNCHANGED <<phase, now, hasAistudio, activeChatId, inputValue,
                   thinkingMode, mode, apiKeyReady, submits, gestures>>
    /\ Render(TRUE)

\* generateContent rejected, or its response holds no text and
\* html.includes throws: catch and finally
BuildFailed(r, error) ==
    /\ phase = "ready"
    /\ reqs[r].pc = "generateContent"
    /\ IF IsCredentialError(error)
       THEN alert' = "apiKeyIssue" /\ apiKeyReady' = FALSE
       ELSE alert' = "buildFailed" /\ UNCHANGED apiKeyReady
    /\ isLoading' = FALSE
    /\ reqs' = [reqs EXCEPT ![r] = Done]
    /\ UNCHANGED chatSessions
    /\ caught' = Caught("handleBuildRequest", r, error)
    /\ UNCHANGED <<phase, now, hasAistudio, activeChatId, inputValue,
                   thinkingMode, showPreview, previewSrcDoc, mode, submits, gestures>>
    /\ Render(TRUE)

(* ------------------------------------------------------------------ Next *)
Next ==
    \/ MountEffects
    \/ \E hasKey \in BOOLEAN : MountRender(hasKey)
    \/ \E t \in FirstNow..LastNow : NewChatClick(t)
    \/ \E i \in 1..Len(chatSessions) : HandleSelectChat(chatSessions[i].key)
    \/ \E confirmed \in BOOLEAN : HandleThinkingModeChange(confirmed)
    \/ \E m \in {"chat", "build"} : SetMode(m)
    \/ \E text \in Inputs : OnChangeInput(text)
    \/ HandleClosePreview
    \/ HandleSubmit
    \/ \E r \in ReqIds : OpenSelectKeyResolved(r)
    \/ \E r \in ReqIds, dialogClosed \in BOOLEAN : OpenSelectKeyRejected(r, dialogClosed)
    \/ \E r \in ReqIds : StreamOpened(r)
    \/ \E r \in ReqIds : StreamChunk(r)
    \/ \E r \in ReqIds : StreamEnded(r)
    \/ \E r \in ReqIds, error \in ApiErrors : SendFailed(r, error)
    \/ \E r \in ReqIds, html \in GeneratedPages : BuildResponded(r, html)
    \/ \E r \in ReqIds, error \in ApiErrors \cup {NoTextError} : BuildFailed(r, error)

Spec == Init /\ [][Next]_vars

StoredValid(store) ==
    /\ store.chatSessions # None
    /\ ~JSONparseThrows(store.chatSessions[1])
    /\ Len(Keys(JSONparse(store.chatSessions[1]))) > 0
    /\ Truthy(store.activeChatId)
    /\ HasKey(JSONparse(store.chatSessions[1]), store.activeChatId[1])

\* C2: when the page starts with a stored non-empty map and a stored active
\* id that is one of its keys, the mount effects leave the sessions map and
\* the active id equal to the stored ones and leave the store as it was, and
\* so does the render that follows them.
C2_LoadRoundTrip ==
    [][(phase # "ready" /\ StoredValid(localStorage))
          => /\ chatSessions' = JSONparse(localStorage.chatSessions[1])
             /\ activeChatId' = localStorage.activeChatId
             /\ localStorage' = localStorage]_vars

\* the load of two stored sessions of which the second is active
C2_Witness ==
    /\ phase = "loaded"
    /\ chatSessions = StoredTwo
    /\ activeChatId = Some(StoredIdB)
    /\ localStorage = Storage(Some(JSONstringify(StoredTwo)), Some(StoredIdB))

\* C3: every handleNewChat adds a session under a key that was not in the
\* map: the map grows by one entry and every entry it held stays as it was;
\* and every session is stored under a key equal to its id.
C3_NewChatKeyIsFresh ==
    /\ [](\A i \in 1..Len(chatSessions) : chatSessions[i].key = chatSessions[i].value.id)
    /\ [][(\E t \in FirstNow..LastNow : NewChatClick(t))
             => /\ Len(chatSessions') = Len(chatSessions) + 1
                /\ \A i \in 1..Len(chatSessions) : chatSessions'[i] = chatSessions[i]]_vars

\* the messages of the session a call was sent from
MessagesOf(req) == Get(chatSessions, req.activeChatId[1]).messages

\* C4: in every session each model message comes after a user message, and
\* while a response streams the list of its session ends with the user
\* message of the call followed by the model message holding the response
\* received so far.
C4_ChronologicalOrder ==
    /\ \A i \in 1..Len(chatSessions) :
         LET messages == chatSessions[i].value.messages
         IN  \A j \in 1..Len(messages) :
                 messages[j].role = "model"
                     => \E u \in 1..(j - 1) : messages[u].role = "user"
    /\ \A r \in ReqIds :
         reqs[r].pc = "stream"
             => LET messages == MessagesOf(reqs[r])
                    n == Len(messages)
                IN  /\ n >= 2
                    /\ messages[n - 1] = Message("user", reqs[r].inputValue)
                    /\ messages[n] = Message("model", reqs[r].modelResponse)

IsPrefix(s, t) == Len(s) <= Len(t) /\ SubSeq(t, 1, Len(s)) = s

\* t is s with the text of its final model message grown
LastModelTextGrows(s, t) ==
    /\ Len(s) > 0 /\ Len(t) = Len(s)
    /\ SubSeq(t, 1, Len(s) - 1) = SubSeq(s, 1, Len(s) - 1)
    /\ s[Len(s)].role = "model" /\ t[Len(t)].role = "model"
    /\ IsPrefix(s[Len(s)].text, t[Len(t)].text)

\* C5 as claimed: every step leaves each session's message list a prefix of
\* the list after the step, or only grows the text of its final model message.
C5_AppendOnly ==
    [][\A i \in 1..Len(chatSessions) :
          LET k == chatSessions[i].key
              before == chatSessions[i].value.messages
          IN  /\ HasKey(chatSessions', k)
              /\ \/ IsPrefix(before, Get(chatSessions', k).messages)
                 \/ LastModelTextGrows(before, Get(chatSessions', k).messages)]_vars

\* the step is the catch of a credential error of a call sent from session k
IsRevertOf(k) ==
    /\ caught'.handler = "handleSendMessage"
    /\ \/ Includes(caught'.error.text, PermissionDenied)
       \/ Includes(caught'.error.text, ApiKeyNotValid)
    /\ reqs[caught'.rid].activeChatId = Some(k)

\* C5 as amended: every step leaves each session's message list a prefix of
\* the list after the step, except that a stream chunk replaces the last
\* message of its session by the model message holding the response so far,
\* the mode toggle empties the list of the active session, the revert after
\* a credential error puts back the list the session had at the submit, and
\* handleNewChat with an id that is already a key empties that session.
C5_AppendOnlyAmended ==
    [][\A i \in 1..Len(chatSessions) :
          LET k == chatSessions[i].key
              before == chatSessions[i].value.messages
              after == Get(chatSessions', k).messages
          IN  /\ HasKey(chatSessions', k)
              /\ \/ IsPrefix(before, after)
                 \/ \E r \in ReqIds :
                       /\ reqs[r].pc = "stream" /\ reqs'[r].pc = "stream"
                       /\ reqs[r].activeChatId = Some(k)
                       /\ Len(before) > 0 /\ Len(after) = Len(before)
                       /\ SubSeq(after, 1, Len(before) - 1)
                              = SubSeq(before, 1, Len(before) - 1)
                       /\ after[Len(after)] = Message("model", reqs'[r].modelResponse)
                 \/ /\ thinkingMode' # thinkingMode
                    /\ activeChatId = Some(k)
                    /\ after = <<>>
                 \/ /\ IsRevertOf(k)
                    /\ after = reqs[caught'.rid].currentChatSession.messages
                 \/ /\ \E t \in FirstNow..LastNow : NewChatClick(t) /\ ToString(t) = k
                    /\ after = <<>>]_vars

\* the stored session with two messages was emptied by the mode toggle
C5_Witness ==
    /\ thinkingMode
    /\ HasKey(chatSessions, StoredIdA)
    /\ Get(chatSessions, StoredIdA).messages = <<>>

\* the first user message of a list
RECURSIVE FirstUserText(_)
FirstUserText(messages) ==
    IF messages[1].role = "user" THEN messages[1].text
    ELSE FirstUserText(Tail(messages))

\* C6: every session that holds a user message has as its title the first
\* TitleMax characters of its first user message, followed by '...' exactly
\* when that message is longer.
C6_TitleIsFirstUserMessage ==
    \A i \in 1..Len(chatSessions) :
        LET session == chatSessions[i].value
        IN  (\E j \in 1..Len(session.messages) : session.messages[j].role = "user")
                => LET text == FirstUserText(session.messages)
                   IN  session.title =
                           SubSeq(text, 1, IF Len(text) < TitleMax THEN Len(text) ELSE TitleMax)
                               \o (IF Len(text) > TitleMax THEN <<46, 46, 46>> ELSE <<>>)

RECURSIVE Concat(_)
Concat(texts) == IF texts = <<>> THEN <<>> ELSE Head(texts) \o Concat(Tail(texts))

\* C7: from the opening of a stream to its end, after each chunk and
\* whatever the user does meanwhile, the last message of the session the
\* call was sent from is the model message whose text is the concatenation,
\* in arrival order, of the chunks received so far.
C7_StreamAccumulates ==
    \A r \in ReqIds :
        reqs[r].pc = "stream"
            => /\ Len(MessagesOf(reqs[r])) > 0
               /\ MessagesOf(reqs[r])[Len(MessagesOf(reqs[r]))]
                      = Message("model", Concat(reqs[r].chunks))

\* C8 as claimed: every error caught from the external API shows an alert.
C8_EveryErrorAlerts == caught.handler # "none" => alert # "none"

\* C8 as amended: every error of the external API is caught and ends its
\* call; a build error and a credential error of a chat send show an alert;
\* any other error of a chat send shows no alert and is appended to a
\* session as the model message 'Sorry, something went wrong. ' and its text.
C8_ErrorsSurfaced ==
    caught.handler # "none"
        => LET error == caught.error
               credential ==
                   \/ Includes(error.text, PermissionDenied)
                   \/ Includes(error.text, ApiKeyNotValid)
               shown == IF error.isError THEN error.text ELSE UnknownError
           IN  /\ reqs[caught.rid].pc = "done"
               /\ ~isLoading
               /\ credential => alert = "apiKeyIssue"
               /\ (~credential /\ caught.handler = "handleBuildRequest")
                      => alert = "buildFailed"
               /\ (~credential /\ caught.handler = "handleSendMessage")
                      => /\ alert = "none"
                         /\ \E i \in 1..Len(chatSessions) :
                              LET messages == chatSessions[i].value.messages
                              IN  /\ Len(messages) > 0
                                  /\ messages[Len(messages)]
                                         = Message("model", SorryPrefix \o shown)

\* a chat send caught an error that is no credential error: no alert
C8_Witness ==
    /\ caught.handler = "handleSendMessage"
    /\ ~Includes(caught.error.text, PermissionDenied)
    /\ ~Includes(caught.error.text, ApiKeyNotValid)
    /\ alert = "none"

\* C9: no step of a build request changes the sessions map or the active
\* id; the step that receives the generated page opens the preview with that
\* page (the base element added after its <head> tag when it has none) as
\* its document; every other step of a build request, its failure included,
\* leaves showPreview and previewSrcDoc as they were.
C9_BuildFrame ==
    [][\A r \in ReqIds :
          (/\ reqs'[r] # reqs[r]
           /\ "handleBuildRequest" \in {reqs[r].handler, reqs'[r].handler})
              => /\ chatSessions' = chatSessions
                 /\ activeChatId' = activeChatId
                 /\ IF reqs[r].pc = "generateContent" /\ caught'.handler = "none"
                    THEN /\ showPreview'
                         /\ previewSrcDoc'.src = "generated"
                         /\ previewSrcDoc'.base \/ ~previewSrcDoc'.head
                    ELSE /\ showPreview' = showPreview
                         /\ previewSrcDoc' = previewSrcDoc]_vars

\* a build request failed while the preview of an earlier build was open,
\* and the preview is still open
C9_Witness ==
    /\ caught.handler = "handleBuildRequest"
    /\ showPreview
    /\ previewSrcDoc.src = "generated"

\* the calls whose request to the external API is under way
InFlight == {r \in ReqIds : reqs[r].pc \in {"sendMessageStream", "stream", "generateContent"}}

\* C10: at most one request to the external API is in flight at any time.
C10_AtMostOneRequest == Cardinality(InFlight) <= 1

\* the step in which call r appends its user message (the send)
IsSendOf(r) ==
    /\ reqs[r].pc \in {"idle", "openSelectKey"}
    /\ reqs'[r].pc = "sendMessageStream"

\* the step in which call r catches a credential error of its chat request
IsCredentialCatchOf(r) ==
    /\ reqs[r].pc \in {"sendMessageStream", "stream"}
    /\ reqs'[r].pc = "done"
    /\ caught'.handler = "handleSendMessage"
    /\ caught'.rid = r
    /\ \/ Includes(caught'.error.text, PermissionDenied)
       \/ Includes(caught'.error.text, ApiKeyNotValid)

\* C11: the session snapshot a chat call holds is the session as it was
\* immediately before the call appended its user message, and the catch of
\* a credential error puts that snapshot back as the session the message
\* was sent from (so no error message is in it), puts the submitted text
\* back into the input box and marks the API key not ready.
C11_CredentialErrorReverts ==
    [][\A r \in ReqIds :
          /\ IsSendOf(r)
                => reqs'[r].currentChatSession
                       = Get(chatSessions, reqs'[r].activeChatId[1])
          /\ IsCredentialCatchOf(r)
                => /\ Get(chatSessions', reqs[r].activeChatId[1])
                          = reqs[r].currentChatSession
                   /\ inputValue' = reqs[r].inputValue
                   /\ ~apiKeyReady']_vars

\* C12: a call of handleThinkingModeChange on an empty active session, or
\* one the user confirms, empties the message list of the active session
\* (its id and title stay), flips the mode and leaves every other session
\* as it was; a call on an active session with messages that the user
\* declines changes neither the mode nor any session.
C12_ToggleClearsOnlyActive ==
    [][\A confirmed \in BOOLEAN :
          HandleThinkingModeChange(confirmed)
              => IF ActiveMessages(chatSessions, activeChatId) = <<>> \/ confirmed
                 THEN /\ thinkingMode' = ~thinkingMode
                      /\ Len(chatSessions') = Len(chatSessions)
                      /\ \A i \in 1..Len(chatSessions) :
                           chatSessions'[i] =
                               IF activeChatId = Some(chatSessions[i].key)
                               THEN [chatSessions[i] EXCEPT !.value.messages = <<>>]
                               ELSE chatSessions[i]
                 ELSE /\ thinkingMode' = thinkingMode
                      /\ chatSessions' = chatSessions]_vars

\* the toggle was confirmed on the stored session with messages while the
\* other stored session, with a message of its own, was left as it was
C12_Witness ==
    /\ thinkingMode
    /\ activeChatId = Some(StoredIdA)
    /\ HasKey(chatSessions, StoredIdA)
    /\ Get(chatSessions, StoredIdA) = [StoredA EXCEPT !.messages = <<>>]
    /\ HasKey(chatSessions, StoredIdB)
    /\ Get(chatSessions, StoredIdB).messages # <<>>

\* the step is one of chat call r: its submit, its send, its placeholder, a
\* chunk, the end of its stream, or its catch
IsChatStepOf(r) ==
    /\ reqs'[r] # reqs[r]
    /\ "handleSendMessage" \in {reqs[r].handler, reqs'[r].handler}

\* C13: a chat call keeps as its session the one that was active when it
\* was submitted, and every step of the call (user message, placeholder,
\* chunk, error message, revert) leaves the sessions map with the same keys
\* and every session other than that one as it was, whichever session is
\* active when the step is taken.
C13_DeliveredToOwnSession ==
    [][\A r \in ReqIds :
          IsChatStepOf(r)
              => LET own == IF reqs[r].pc = "idle" THEN activeChatId
                            ELSE reqs[r].activeChatId
                 IN  /\ reqs'[r].pc # "done" => reqs'[r].activeChatId = own
                     /\ Len(chatSessions') = Len(chatSessions)
                     /\ \A i \in 1..Len(chatSessions) :
                          /\ chatSessions'[i].key = chatSessions[i].key
                          /\ own # Some(chatSessions[i].key)
                                => chatSessions'[i] = chatSessions[i]]_vars

\* a chunk was delivered to the session of its call while another session
\* is the active one
C13_Witness ==
    \E r \in ReqIds :
        /\ reqs[r].pc = "stream"
        /\ reqs[r].chunks # <<>>
        /\ reqs[r].activeChatId # activeChatId
        /\ Len(MessagesOf(reqs[r])) > 0
        /\ MessagesOf(reqs[r])[Len(MessagesOf(reqs[r]))]
               = Message("model", Concat(reqs[r].chunks))
        /\ ActiveMessages(chatSessions, activeChatId) = <<>>

\* C14: once the initial load has run, the active id is set and is a key
\* of the sessions map, in every state and whatever local storage held at
\* the start (nothing, an unreadable text, an empty map, or an active id
\* that is no key of the stored map).
C14_ActiveSessionExists ==
    phase # "init"
        => /\ Truthy(activeChatId)
           /\ HasKey(chatSessions, activeChatId[1])

\* the load has just run on an unreadable stored text (still in the store)
\* and ended with a fresh session as the active one
C14_Witness ==
    /\ phase = "loaded"
    /\ localStorage.chatSessions = Some(MalformedJSON)
    /\ Len(chatSessions) = 1
    /\ activeChatId = Some(chatSessions[1].key)
    /\ chatSessions[1].value.title = NewChatTitle

====
